---- MODULE Spec2Model ----
(***************************************************************************)
(* Volunteer scheduler (Scheduler2.py): build_schedule(df) loads the       *)
(* survey table, solves the CP-SAT assignment model, flattens the schedule *)
(* and computes the preference breakdown.  One run of build_schedule is a  *)
(* behaviour of this module; pc is the position inside build_schedule.     *)
(***************************************************************************)
EXTENDS Integers, Sequences, FiniteSets

VARIABLES df, pc, volunteers, roles, prefs_map, shifts, weights,
          status, schedule, sched_df, breakdown, returned, raised

vars == <<df, pc, volunteers, roles, prefs_map, shifts, weights,
          status, schedule, sched_df, breakdown, returned, raised>>

(***************************************************************************)
(* Configuration (Scheduler2.py lines 13-23).                              *)
(***************************************************************************)
MAX_PER_SHIFT == 3

LEX_WEIGHTS == <<100000, 10000, 1000, 100, 10>>

FALLBACK_WEIGHT == 1

(***************************************************************************)
(* Helpers.                                                                *)
(***************************************************************************)
Range(seq) == {seq[i] : i \in 1..Len(seq)}

RECURSIVE SeqSum(_)
SeqSum(seq) == IF seq = <<>> THEN 0 ELSE Head(seq) + SeqSum(Tail(seq))

\* list.index(x): 0-based position of the first occurrence.
ListIndex(seq, x) ==
    (CHOOSE k \in 1..Len(seq) :
        seq[k] = x /\ \A j \in 1..(k - 1) : seq[j] # x) - 1

(***************************************************************************)
(* Bounds of the model and the tables build_schedule is run on.            *)
(***************************************************************************)
MaxRows == 4

MaxPrefCols == 6

\* Shift identifiers, and their order as strings (sorted() at line 73).
ShiftOrder == <<"A", "B">>

ShiftIds == {ShiftOrder[i] : i \in 1..Len(ShiftOrder)}

\* A blank cell of the table (pd.notna is false on it).
NaN == "NaN"

\* The Name column: a fresh name per row, row i may also repeat row i-1's.
NameList == <<"v1", "v2", "v3", "v4", "v5", "v6">>

\* A Role cell is represented by the set of the keywords that occur in its
\* stripped, lower-cased text: {} is e.g. "Volunteer", {"mentor","mentee"}
\* is e.g. "Mentor / former mentee".
RoleCells == <<{}, {"mentee"}, {"mentor"}>>

\* Availability cells of the rows of a table of several rows (two columns).
ShortAvail == <<  <<NaN, NaN>>, <<"A", NaN>>, <<"B", NaN>>, <<"A", "B">>  >>

\* Row contents of the tables of several rows, numbered 1..NumContents.
NumContents == Len(RoleCells) * Len(ShortAvail)

ContentRole(c) == RoleCells[((c - 1) \div Len(ShortAvail)) + 1]

ContentAvail(c) == ShortAvail[((c - 1) % Len(ShortAvail)) + 1]

\* Tables of n rows: rows in non-decreasing order of content (the code treats
\* rows alike, and of two rows of one name only the later one's cells are
\* read), row i named afresh or, when dup[i], as row i-1.
RowName(dup, i) ==
    LET firsts == {j \in 1..i : j = 1 \/ ~dup[j]}
    IN  NameList[CHOOSE j \in firsts : \A k \in firsts : k <= j]

WideTable(n, c, dup) ==
    [i \in 1..n |-> [Name |-> RowName(dup, i),
                     Role |-> ContentRole(c[i]),
                     Avail |-> ContentAvail(c[i])]]

\* The content columns of the tables of n rows.
SortedContents(n) ==
    {c \in [1..n -> 1..NumContents] : \A i \in 1..n : i < n => c[i] <= c[i + 1]}

\* Tables of up to MaxPrefCols availability columns: a first row with every
\* column filled (its Role cell may hold both keywords) and, optionally, a
\* second row that fills the first column only.
LongRoleCells == Range(RoleCells) \cup {{"mentor", "mentee"}}

SecondRows(n) ==
    {<<>>} \cup
    { << [Name |-> NameList[2], Role |-> r, Avail |-> [i \in 1..n |-> IF i = 1 THEN s ELSE NaN]] >> :
        r \in Range(RoleCells), s \in ShiftIds }

LongTable(r, a, second) ==
    << [Name |-> NameList[1], Role |-> r, Avail |-> a] >> \o second

(***************************************************************************)
(* load_preferences (lines 28-84).                                         *)
(***************************************************************************)
\* lines 58-64: 'mentor' is tested before 'mentee'.
ClassifyRole(rv) ==
    IF "mentor" \in rv THEN "mentor"
    ELSE IF "mentee" \in rv THEN "mentee"
    ELSE "volunteer"

\* lines 66-70: the row's non-blank cells, in column order.
RowPrefs(row) == SelectSeq(row.Avail, LAMBDA v : v # NaN)

\* roles[name] and prefs_map[name] are dict stores: the last row of a name wins.
LastRow(table, name) ==
    CHOOSE i \in 1..Len(table) :
        table[i].Name = name /\ \A j \in (i + 1)..Len(table) : table[j].Name # name

TableNames(table) == {table[i].Name : i \in 1..Len(table)}

\* line 73: sorted list of the distinct slots of prefs_map.
SortedShifts(pm) ==
    SelectSeq(ShiftOrder, LAMBDA s : \E n \in DOMAIN pm : s \in Range(pm[n]))

\* LEX_WEIGHTS.get(rank, FALLBACK_WEIGHT)
LexWeightsGet(rank) ==
    IF rank \in DOMAIN LEX_WEIGHTS THEN LEX_WEIGHTS[rank] ELSE FALLBACK_WEIGHT

\* lines 75-83: every listed slot is stored at each of its ranks in turn, so
\* the store of its last rank stays; every other pair gets the fallback weight.
WeightOf(prefs, slot) ==
    LET ranks == {k \in 1..Len(prefs) : prefs[k] = slot}
    IN  IF ranks = {} THEN FALLBACK_WEIGHT
        ELSE LexWeightsGet(CHOOSE k \in ranks : \A j \in ranks : j <= k)

LoadPreferences ==
    /\ pc = "load_preferences"
    /\ LET names == TableNames(df)
           pm    == [n \in names |-> RowPrefs(df[LastRow(df, n)])]
           sh    == SortedShifts(pm)
       IN  /\ volunteers' = [i \in 1..Len(df) |-> df[i].Name]
           /\ roles' = [n \in names |-> ClassifyRole(df[LastRow(df, n)].Role)]
           /\ prefs_map' = pm
           /\ shifts' = sh
           /\ weights' = [p \in names \X Range(sh) |-> WeightOf(pm[p[1]], p[2])]
    /\ pc' = "solve_schedule"
    /\ UNCHANGED <<df, status, schedule, sched_df, breakdown, returned, raised>>

(***************************************************************************)
(* solve_schedule (lines 89-143).                                          *)
(***************************************************************************)
ShiftSet == Range(shifts)

\* sum(x[(v, s)] for v in vs), vs a list (a repeated name is summed again).
SumOverList(x, vs, s) == SeqSum([i \in 1..Len(vs) |-> x[<<vs[i], s>>]])

\* Mutant of ExactlyOneShift: sum(...) <= 1, a volunteer may be left out.
AtMostOneShift ==
    { [p \in (DOMAIN roles) \X ShiftSet |-> IF a[p[1]] = p[2] THEN 1 ELSE 0] :
        a \in [DOMAIN roles -> ShiftSet \cup {"unassigned"}] }

\* lines 100-104: one 0/1 variable per key (v, s), a repeated name being one
\* key, with sum(x[(v, s)] for s in shifts) == 1 for every v.  The vectors
\* that satisfy it are the indicators of the maps from names to shifts (none
\* when there is a volunteer and no shift: the empty sum is not 1).
ExactlyOneShift ==
    { [p \in (DOMAIN roles) \X ShiftSet |-> IF a[p[1]] = p[2] THEN 1 ELSE 0] :
        a \in [DOMAIN roles -> ShiftSet] }

\* Mutant of CapacityConstraint: the bound is off by one.
CapacityOffByOne(x) ==
    \A s \in ShiftSet : SumOverList(x, volunteers, s) <= MAX_PER_SHIFT + 1

\* lines 107-108
CapacityConstraint(x) ==
    \A s \in ShiftSet : SumOverList(x, volunteers, s) <= MAX_PER_SHIFT

\* lines 111-112
mentees == SelectSeq(volunteers, LAMBDA v : roles[v] = "mentee")

mentors == SelectSeq(volunteers, LAMBDA v : roles[v] = "mentor")

\* lines 113-120: y[s] is the has_mentee_s variable.
MentorMenteePairing(x) ==
    (mentees # <<>> /\ mentors # <<>>) =>
        \E y \in [ShiftSet -> BOOLEAN] :
            \A s \in ShiftSet :
                /\ y[s] => SumOverList(x, mentees, s) >= 1
                /\ ~y[s] => SumOverList(x, mentees, s) = 0
                /\ y[s] => SumOverList(x, mentors, s) >= 1

\* lines 123-124
Objective(x) ==
    SeqSum([i \in 1..Len(volunteers) |->
        SeqSum([j \in 1..Len(shifts) |->
            weights[<<volunteers[i], shifts[j]>>] * x[<<volunteers[i], shifts[j]>>]])])

\* The solutions of the CP-SAT model, and those of maximal objective.
FeasibleSolutions ==
    {x \in ExactlyOneShift : CapacityConstraint(x) /\ MentorMenteePairing(x)}

OptimalSolutions(feasible) ==
    LET values == {Objective(z) : z \in feasible}
        best   == CHOOSE b \in values : \A c \in values : c <= b
    IN  {x \in feasible : Objective(x) = best}

\* The keys of x in insertion order, per name: each name once, at its first row.
DistinctNames ==
    LET firstRows == SelectSeq([i \in 1..Len(volunteers) |-> i],
                        LAMBDA i : \A j \in 1..(i - 1) : volunteers[j] # volunteers[i])
    IN  [k \in 1..Len(firstRows) |-> volunteers[firstRows[k]]]

\* lines 135-142
ExtractSchedule(x) ==
    [s \in ShiftSet |->
        LET sel == SelectSeq(DistinctNames, LAMBDA v : x[<<v, s>>] = 1)
        IN  [k \in 1..Len(sel) |->
                [Name |-> sel[k],
                 Role |-> roles[sel[k]],
                 Fallback |-> (weights[<<sel[k], s>>] = FALLBACK_WEIGHT)]]]

\* lines 126-143.  solver.Solve ends, within max_time_in_seconds, with
\* OPTIMAL (a solution of maximal objective), FEASIBLE (the time ran out on
\* some solution), INFEASIBLE (there is none) or UNKNOWN (the time ran out
\* before a solution or a proof of infeasibility was found).
SolveSchedule ==
    /\ pc = "solve_schedule"
    /\ LET feasible == FeasibleSolutions
       IN  \/ \E x \in OptimalSolutions(feasible) :
                /\ status' = "OPTIMAL"
                /\ schedule' = ExtractSchedule(x)
                /\ pc' = "prepare_schedule_df"
                /\ raised' = raised
           \/ \E x \in feasible :
                /\ status' = "FEASIBLE"
                /\ schedule' = ExtractSchedule(x)
                /\ pc' = "prepare_schedule_df"
                /\ raised' = raised
           \/ /\ feasible = {}
              /\ status' = "INFEASIBLE"
              /\ raised' = "RuntimeError: No feasible schedule found."
              /\ pc' = "failed"
              /\ schedule' = schedule
           \/ /\ status' = "UNKNOWN"
              /\ raised' = "RuntimeError: No feasible schedule found."
              /\ pc' = "failed"
              /\ schedule' = schedule
    /\ UNCHANGED <<df, volunteers, roles, prefs_map, shifts, weights,
                   sched_df, breakdown, returned>>

(***************************************************************************)
(* prepare_schedule_df (lines 148-168).                                    *)
(***************************************************************************)
RECURSIVE ScheduleRows(_, _)
ScheduleRows(sched, slots) ==
    IF slots = <<>> THEN <<>>
    ELSE LET slot == Head(slots)
             items == sched[slot]
         IN  [k \in 1..Len(items) |->
                 [TimeSlot |-> slot,
                  Name |-> items[k].Name,
                  Role |-> items[k].Role,
                  Fallback |-> items[k].Fallback]]
             \o ScheduleRows(sched, Tail(slots))

(***************************************************************************)
(* compute_breakdown (lines 171-194).                                      *)
(***************************************************************************)
\* lines 173-180: the keys of counts, in order.
BucketLabels ==
    <<"1st availability", "2nd availability", "3rd availability",
      "4th availability", "5th availability", "Fallback (outside prefs)">>

\* line 181: enumerate(list(counts)[:-1])
ord_map == [i \in 0..(Len(BucketLabels) - 2) |-> BucketLabels[i + 1]]

\* The (slot, record) pairs of the schedule.
Assignments(sched) ==
    UNION {{<<s, k>> : k \in 1..Len(sched[s])} : s \in DOMAIN sched}

\* line 172
Total(sched) == Cardinality(Assignments(sched))

\* lines 186-187 raise KeyError when prefs.index(slot) is no key of ord_map.
BreakdownKeyError(sched, pm) ==
    \E a \in Assignments(sched) :
        LET prefs == pm[sched[a[1]][a[2]].Name]
        IN  a[1] \in Range(prefs) /\ ListIndex(prefs, a[1]) \notin DOMAIN ord_map

\* lines 182-189
CountOf(sched, pm, label) ==
    Cardinality({a \in Assignments(sched) :
        LET prefs == pm[sched[a[1]][a[2]].Name]
        IN  IF a[1] \in Range(prefs)
            THEN ord_map[ListIndex(prefs, a[1])] = label
            ELSE label = "Fallback (outside prefs)"})

\* f"{pct:.1f}" as tenths of a percent: the nearest tenth, a tie to the even one.
PercentTenths(v, total) ==
    IF total = 0 THEN 0
    ELSE LET q == (v * 1000) \div total
             r == (v * 1000) % total
         IN  IF 2 * r > total \/ (2 * r = total /\ q % 2 = 1) THEN q + 1 ELSE q

\* lines 190-194
BreakdownTable(sched, pm) ==
    [b \in 1..Len(BucketLabels) |->
        [Preference |-> BucketLabels[b],
         Count |-> CountOf(sched, pm, BucketLabels[b]),
         Percentage |-> PercentTenths(CountOf(sched, pm, BucketLabels[b]), Total(sched))]]

(***************************************************************************)
(* build_schedule after solve_schedule has returned (lines 205-211):       *)
(* prepare_schedule_df, the empty unassigned_df, compute_breakdown and the *)
(* return of the three tables.                                             *)
(***************************************************************************)
ReportSchedule ==
    /\ pc = "prepare_schedule_df"
    /\ sched_df' = ScheduleRows(schedule, shifts)
    /\ \/ /\ BreakdownKeyError(schedule, prefs_map)
          /\ raised' = "KeyError"
          /\ pc' = "failed"
          /\ UNCHANGED <<breakdown, returned>>
       \/ /\ ~BreakdownKeyError(schedule, prefs_map)
          /\ breakdown' = BreakdownTable(schedule, prefs_map)
          /\ returned' = << [sched_df |-> sched_df',
                             unassigned_df |-> <<>>,
                             breakdown_df |-> breakdown'] >>
          /\ pc' = "done"
          /\ raised' = raised
    /\ UNCHANGED <<df, volunteers, roles, prefs_map, shifts, weights,
                   status, schedule>>

InitTable ==
    \/ \E n \in 0..MaxRows : \E c \in SortedContents(n) : \E dup \in [2..n -> BOOLEAN] :
          df = WideTable(n, c, dup)
    \/ \E n \in 1..MaxPrefCols : \E r \in LongRoleCells : \E a \in [1..n -> ShiftIds] :
          \E second \in SecondRows(n) : df = LongTable(r, a, second)

Init ==
    /\ InitTable
    /\ pc = "load_preferences"
    /\ volunteers = <<>>
    /\ roles = <<>>
    /\ prefs_map = <<>>
    /\ shifts = <<>>
    /\ weights = <<>>
    /\ status = ""
    /\ schedule = <<>>
    /\ sched_df = <<>>
    /\ breakdown = <<>>
    /\ returned = <<>>
    /\ raised = ""

Next ==
    \/ LoadPreferences
    \/ SolveSchedule
    \/ ReportSchedule

Spec == Init /\ [][Next]_vars

(***************************************************************************)
(* The properties checked of build_schedule.                               *)
(***************************************************************************)
RuntimeErrorRaised == raised = "RuntimeError: No feasible schedule found."

\* solve_schedule has returned a schedule.
Solved == status \in {"OPTIMAL", "FEASIBLE"}

\* solve_schedule has been called and has ended.
SolveEnded == pc \notin {"load_preferences", "solve_schedule"}

RecordNames(s) == {schedule[s][k].Name : k \in 1..Len(schedule[s])}

\* The shift in whose list the name stands.
AssignedShift(v) == CHOOSE s \in DOMAIN schedule : v \in RecordNames(s)

\* The first five entries of a preference list.
Ranked(prefs) == {prefs[k] : k \in 1..(IF Len(prefs) < 5 THEN Len(prefs) ELSE 5)}

\* The assignments of every volunteer to exactly one shift that keep every
\* shift within capacity (each row of the table counts) and, when both roles
\* are present, give every shift with a mentee a mentor.
RowsIn(a, s) == {i \in 1..Len(volunteers) : a[volunteers[i]] = s}

MentorCovered(a) ==
    \A s \in ShiftSet :
        (\E v \in DOMAIN roles : roles[v] = "mentee" /\ a[v] = s)
            => (\E w \in DOMAIN roles : roles[w] = "mentor" /\ a[w] = s)

BothRolesPresent ==
    /\ \E v \in DOMAIN roles : roles[v] = "mentee"
    /\ \E w \in DOMAIN roles : roles[w] = "mentor"

AdmissibleAssignments ==
    {a \in [DOMAIN roles -> ShiftSet] :
        /\ \A s \in ShiftSet : Cardinality(RowsIn(a, s)) <= MAX_PER_SHIFT
        /\ BothRolesPresent => MentorCovered(a)}

\* C1 (total coverage): when there is at least one shift, in a returned
\* schedule every row of the table has its own record: the name of each row
\* stands in exactly one shift's list, and there are as many records as rows.
C1_TotalCoverage ==
    (Solved /\ shifts # <<>>) =>
        /\ Total(schedule) = Len(df)
        /\ \A i \in 1..Len(df) :
              Cardinality({s \in DOMAIN schedule : df[i].Name \in RecordNames(s)}) = 1

\* C2 (capacity bound): in every returned schedule every shift's list holds at
\* most MAX_PER_SHIFT records.
C2_CapacityBound ==
    Solved => \A s \in DOMAIN schedule : Len(schedule[s]) <= MAX_PER_SHIFT

\* C2's case: more than MAX_PER_SHIFT volunteers list one shift first, and the
\* optimal schedule fills that shift exactly.
C2_Witness ==
    /\ status = "OPTIMAL"
    /\ \E s \in DOMAIN schedule :
          /\ Len(schedule[s]) = MAX_PER_SHIFT
          /\ Cardinality({v \in DOMAIN prefs_map :
                 prefs_map[v] # <<>> /\ prefs_map[v][1] = s}) > MAX_PER_SHIFT

\* C3 (mentor coverage): in every returned schedule a shift whose list holds a
\* mentee also holds a mentor.
C3_MentorCoverage ==
    Solved =>
        \A s \in DOMAIN schedule :
            (\E k \in 1..Len(schedule[s]) : schedule[s][k].Role = "mentee")
                => (\E k \in 1..Len(schedule[s]) : schedule[s][k].Role = "mentor")

\* The number of volunteers that assignment a places in the shift at position k
\* of their preference list, for k = 1..5.
RankCounts(a) ==
    [k \in 1..5 |->
        Cardinality({i \in 1..Len(volunteers) :
            LET prefs == prefs_map[volunteers[i]]
            IN  k <= Len(prefs) /\ prefs[k] = a[volunteers[i]]})]

LexGreater(u, w) ==
    \E k \in 1..5 : u[k] > w[k] /\ \A j \in 1..(k - 1) : u[j] = w[j]

\* C4 (lexicographic preference satisfaction): with fewer than 10 volunteers,
\* no admissible assignment satisfies more position-1 preferences than an
\* optimal schedule, nor as many of them and more position-2 preferences, and
\* so on through position 5.
C4_Lexicographic ==
    (status = "OPTIMAL" /\ Len(volunteers) < 10) =>
        LET returnedAssignment == [v \in DOMAIN roles |-> AssignedShift(v)]
        IN  \A a \in AdmissibleAssignments :
                ~LexGreater(RankCounts(a), RankCounts(returnedAssignment))

\* Scenario C: a mentee lists one shift as its sole preference and the table
\* holds no mentor.
ScenarioC ==
    /\ \E v \in DOMAIN roles : roles[v] = "mentee" /\ Len(prefs_map[v]) = 1
    /\ \A w \in DOMAIN roles : roles[w] # "mentor"

\* C5 (scenario C): on such a table build_schedule fails with the solver error
\* and returns nothing.
C5_ScenarioCFails ==
    (SolveEnded /\ ScenarioC) => (RuntimeErrorRaised /\ returned = <<>>)

\* C6 (solver outcome), as claimed: solve_schedule returns a schedule whenever
\* an admissible assignment exists and raises the solver error exactly when
\* none exists; on failure build_schedule returns nothing.
C6_SolverOutcome ==
    SolveEnded =>
        /\ (AdmissibleAssignments # {}) <=> Solved
        /\ (AdmissibleAssignments = {}) <=> RuntimeErrorRaised
        /\ raised # "" => returned = <<>>

\* C6 (solver outcome), amended: a schedule is returned only if an admissible
\* assignment exists; the solver error is raised whenever none exists, and
\* otherwise only when the search ended with status UNKNOWN (the time budget
\* ran out before any solution was found); on failure build_schedule returns
\* nothing, and after the solver error there is no schedule and no breakdown.
C6_SolverOutcomeWithinBudget ==
    SolveEnded =>
        /\ Solved => AdmissibleAssignments # {}
        /\ AdmissibleAssignments = {} => RuntimeErrorRaised
        /\ RuntimeErrorRaised => (AdmissibleAssignments = {} \/ status = "UNKNOWN")
        /\ RuntimeErrorRaised <=> ~Solved
        /\ raised # "" => returned = <<>>
        /\ RuntimeErrorRaised =>
              schedule = <<>> /\ sched_df = <<>> /\ breakdown = <<>>

\* C6's case: there are shifts, but more volunteers than they can hold; the
\* search proves it and the solver error is raised.
C6_Witness ==
    /\ status = "INFEASIBLE"
    /\ RuntimeErrorRaised
    /\ shifts # <<>>
    /\ Len(volunteers) > MAX_PER_SHIFT * Len(shifts)
    /\ returned = <<>>

\* C7 (breakdown conservation): for every returned schedule compute_breakdown
\* returns a table whose six counts sum to the number of assignment records.
C7_BreakdownConservation ==
    (Solved /\ pc \in {"done", "failed"}) =>
        /\ returned # <<>>
        /\ SeqSum([b \in 1..Len(breakdown) |-> breakdown[b].Count]) = Total(schedule)

\* Every volunteer has a first preference, and sending each to it keeps the
\* capacity and gives every shift with a mentee a mentor.
FirstChoicesAdmissible ==
    /\ \A v \in DOMAIN prefs_map : prefs_map[v] # <<>>
    /\ LET first == [v \in DOMAIN prefs_map |-> prefs_map[v][1]]
       IN  /\ \A s \in ShiftSet : Cardinality(RowsIn(first, s)) <= MAX_PER_SHIFT
           /\ MentorCovered(first)

\* C8 (scenarios A and D): when the first choices are admissible, the optimal
\* schedule is that assignment, no record is flagged Fallback, and the
\* breakdown counts every assignment as '1st availability'.
C8_AllFirstChoices ==
    (status = "OPTIMAL" /\ FirstChoicesAdmissible) =>
        /\ \A v \in DOMAIN prefs_map : v \in RecordNames(prefs_map[v][1])
        /\ \A a \in Assignments(schedule) : ~schedule[a[1]][a[2]].Fallback
        /\ pc \in {"done", "failed"} =>
              /\ returned # <<>>
              /\ breakdown[1].Count = Total(schedule)

\* C9 (weight table): the table has an entry for every (volunteer, shift)
\* pair; the shift at position k <= 5 of a volunteer's list weighs
\* LEX_WEIGHTS[k], every other pair weighs FALLBACK_WEIGHT; the weights
\* decrease strictly with the rank, down to the fallback weight.
C9_WeightTable ==
    pc # "load_preferences" =>
        /\ DOMAIN weights = (DOMAIN prefs_map) \X ShiftSet
        /\ \A v \in DOMAIN prefs_map :
              /\ \A k \in 1..Len(prefs_map[v]) :
                    k <= 5 => weights[<<v, prefs_map[v][k]>>] = LEX_WEIGHTS[k]
              /\ \A s \in ShiftSet \ Ranked(prefs_map[v]) :
                    weights[<<v, s>>] = FALLBACK_WEIGHT
        /\ \A k \in 1..4 : LEX_WEIGHTS[k] > LEX_WEIGHTS[k + 1]
        /\ LEX_WEIGHTS[5] > FALLBACK_WEIGHT

\* C10 (fallback flag): a record of volunteer v in shift s is flagged Fallback
\* exactly when s is not among the first five entries of v's preference list.
C10_FallbackFlag ==
    Solved =>
        \A a \in Assignments(schedule) :
            LET rec == schedule[a[1]][a[2]]
            IN  rec.Fallback <=> (a[1] \notin Ranked(prefs_map[rec.Name]))

====
